---------------------------- MODULE Spec2Model ----------------------------
(***************************************************************************)
(* Model of the lookup-table generator of bryt (gulpfile.js, task `build`). *)
(*                                                                         *)
(* The build enumerates the RGB colour space, groups the packed colours by *)
(* brightness, range-encodes every group, serialises it into a Buffer,     *)
(* hands the Buffer to brotli.compress (retrying on refusal), writes one   *)
(* file per brightness level and finally the index of the counts.          *)
(*                                                                         *)
(* The colour space is scaled: every channel runs over 0..ChanMax instead  *)
(* of 0..255, so there are ChanMax + 1 brightness levels instead of 256.   *)
(* The weights, the packing (r << 16) + (g << 8) + b, the 80 byte minimum  *)
(* and the byte layout are those of the source.                            *)
(***************************************************************************)
EXTENDS Integers, Sequences, FiniteSets, TLC

VARIABLES
    pc,          \* position of the build task
    error,       \* what the task threw ("none" while it runs)
    K,           \* the compressor refuses every input shorter than K bytes
    dirExists,   \* lookupDir exists on disk
    levelFiles,  \* lookupDir/<brightness>.br : level -> file content
    indexFile,   \* lookupDir/index.json (NoFile while absent)
    b, g, r,     \* loop variables of the enumeration
    brightness,  \* `let brightness` (line 47)
    results,     \* `results`: brightness -> array of packed colours
    total,       \* `total` of the current level
    ranges,      \* `ranges` of the current level (arrays of colours)
    before,      \* `before`: the Buffer handed to the compressor
    offset,      \* `offset`
    after,       \* `after`: result of brotli.compress (Null on refusal)
    counts       \* `counts`

vars == <<pc, error, K, dirExists, levelFiles, indexFile, b, g, r, brightness,
          results, total, ranges, before, offset, after, counts>>

---------------------------------------------------------------------------
(* Bounds *)

\* Largest channel value (255 in the source).
ChanMax == 4

\* Largest refusal threshold of the compressor that is explored.
MaxK == 82

\* Largest value and longest bucket given to the range encoder in SpecEnc.
MaxEncVal == 4

(* Program constants *)

\* Math.max(4 + (ranges.length * 8), 80)
MinSize == 80

\* What colors.shift() returns for an empty array, and the value of an
\* unassigned `let`: JavaScript's undefined.
Undefined == -1

Levels == 0 .. ChanMax

NumLevels == ChanMax + 1

Null == <<>>

NoFile == <<>>

EmptyMap == [x \in {} |-> <<>>]

Put(f, k, v) == [x \in DOMAIN f \cup {k} |-> IF x = k THEN v ELSE f[x]]

---------------------------------------------------------------------------
(* Pure functions of the build *)

\* mutant: the quotient rounded instead of truncated
BrightnessRounded(rr, gg, bb) == (rr * 299 + gg * 587 + bb * 114 + 500) \div 1000

\* ((r * 299 + g * 587 + b * 114) / 1000) | 0
Brightness(rr, gg, bb) == (rr * 299 + gg * 587 + bb * 114) \div 1000

\* (r << 16) + (g << 8) + b
Pack(rr, gg, bb) == rr * 65536 + gg * 256 + bb

\* results[brightness].sort((a, b) => a < b ? -1 : a > b ? 1 : 0)
SortColors(colors) == SortSeq(colors, LAMBDA x, y : x < y)

\* mutant: the length taken after colors.shift()
TotalAfterShift(colors) == IF colors = <<>> THEN 0 ELSE Len(colors) - 1

\* const total = colors.length
Total(colors) == Len(colors)

\* colors.shift(): the removed first element, undefined for an empty array
ShiftValue(colors) == IF colors = <<>> THEN Undefined ELSE Head(colors)

\* colors.shift(): what is left in the array
ShiftRest(colors) == IF colors = <<>> THEN <<>> ELSE Tail(colors)

\* mutant: i > last
NewRangeOffByOne(i, last) == last # Undefined /\ i > last

\* i > last + 1   (undefined + 1 is NaN, and every comparison with NaN is false)
NewRange(i, last) == last # Undefined /\ i > last + 1

RECURSIVE RangeLoop(_, _, _)
\* for (const i of colors) { if (i > last + 1) range++; ... ranges[range].push(i); last = i; }
RangeLoop(colors, last, rs) ==
    IF colors = <<>> THEN rs
    ELSE LET i == Head(colors)
             n == Len(rs)
             next == IF NewRange(i, last)
                     THEN Append(rs, <<i>>)
                     ELSE [rs EXCEPT ![n] = Append(@, i)]
         IN  RangeLoop(Tail(colors), i, next)

\* ranges[range] = [ last ]; then the loop
BuildRanges(sorted) ==
    RangeLoop(ShiftRest(sorted), ShiftValue(sorted), << <<ShiftValue(sorted)>> >>)

\* mutant: no minimum size
BufferSizeNoFloor(nRanges) == 4 + nRanges * 8

\* Math.max(4 + (ranges.length * 8), 80)
BufferSize(nRanges) ==
    IF 4 + nRanges * 8 > MinSize THEN 4 + nRanges * 8 ELSE MinSize

\* Buffer.alloc(size): zero filled
BufferAlloc(size) == [i \in 1 .. size |-> 0]

\* value = +value: undefined becomes NaN, which the byte stores turn into 0.
\* Every other value written is a count or a colour, at most 2^24, so the
\* range check of writeUInt32LE (0 .. 2^32 - 1) always passes.
ToUint32(v) == IF v = Undefined THEN 0 ELSE v

RECURSIVE Pow256(_)
Pow256(k) == IF k = 0 THEN 1 ELSE 256 * Pow256(k - 1)

\* buf.writeUInt32LE(value, off): least significant byte first
WriteUInt32LE(buf, value, off) ==
    [i \in 1 .. Len(buf) |->
        IF i - 1 >= off /\ i - 1 < off + 4
        THEN (ToUint32(value) \div Pow256(i - 1 - off)) % 256
        ELSE buf[i]]

\* mutant: the first colour written before the length
WriteRecordSwapped(buf, range, off) ==
    WriteUInt32LE(WriteUInt32LE(buf, range[1], off), Len(range), off + 4)

\* one record: the range's length, then its first colour
WriteRecord(buf, range, off) ==
    WriteUInt32LE(WriteUInt32LE(buf, Len(range), off), range[1], off + 4)

RECURSIVE WriteRanges(_, _, _, _)
\* for (let i = 0; i < ranges.length; i++) { write length; offset += 4; write first; offset += 4 }
WriteRanges(buf, rs, i, off) ==
    IF i > Len(rs) THEN buf
    ELSE WriteRanges(WriteRecord(buf, rs[i], off), rs, i + 1, off + 8)

\* the `before` buffer of a level
BuildBefore(tot, rs) ==
    WriteRanges(WriteUInt32LE(BufferAlloc(BufferSize(Len(rs))), tot, 0), rs, 1, 4)

\* brotli.compress(before): null for an input shorter than the threshold,
\* otherwise a non-empty, lossless encoding of the input (a length byte
\* followed by the input stands for it)
Compress(threshold, buf) ==
    IF Len(buf) < threshold THEN Null ELSE <<Len(buf) % 256>> \o buf

\* mutant: counts.unshift(total)
UnshiftCount(cs, tot) == <<tot>> \o cs

\* counts.push(total)
PushCount(cs, tot) == Append(cs, tot)

DigitChars == <<"0", "1", "2", "3", "4", "5", "6", "7", "8", "9">>

RECURSIVE NumberChars(_)
\* the decimal digits of a non-negative integer
NumberChars(n) ==
    IF n < 10 THEN <<DigitChars[n + 1]>>
    ELSE NumberChars(n \div 10) \o <<DigitChars[(n % 10) + 1]>>

RECURSIVE JoinNumbers(_)
JoinNumbers(cs) ==
    IF cs = <<>> THEN <<>>
    ELSE IF Len(cs) = 1 THEN NumberChars(cs[1])
    ELSE NumberChars(cs[1]) \o <<",">> \o JoinNumbers(Tail(cs))

\* JSON.stringify(counts) for an array of integers, as a sequence of characters
JSONStringify(cs) == <<"[">> \o JoinNumbers(cs) \o <<"]">>

---------------------------------------------------------------------------
(* The build task *)

Init ==
    /\ pc = "clean"
    /\ error = "none"
    /\ K \in 0 .. MaxK
    /\ dirExists \in BOOLEAN
    /\ levelFiles = EmptyMap
    /\ indexFile = NoFile
    /\ b = 0 /\ g = 0 /\ r = 0
    /\ brightness = Undefined
    /\ results = EmptyMap
    /\ total = 0
    /\ ranges = <<>>
    /\ before = <<>>
    /\ offset = 0
    /\ after = Null
    /\ counts = <<>>

\* an exception leaves the async function: the task fails, nothing else runs
Throw(e) == pc' = "failed" /\ error' = e

\* cleanLookup: fs.remove(lookupDir), run by series() before build
CleanLookup ==
    /\ pc = "clean"
    /\ \E ok \in BOOLEAN :
        IF ok
        THEN /\ dirExists' = FALSE
             /\ levelFiles' = EmptyMap
             /\ indexFile' = NoFile
             /\ pc' = "mkdirs"
             /\ error' = error
        ELSE /\ Throw("remove")
             /\ UNCHANGED <<dirExists, levelFiles, indexFile>>
    /\ UNCHANGED <<K, b, g, r, brightness, results, total, ranges, before,
                   offset, after, counts>>

\* await fs.mkdirs(lookupDir)
Mkdirs ==
    /\ pc = "mkdirs"
    /\ \E ok \in BOOLEAN :
        IF ok
        THEN dirExists' = TRUE /\ pc' = "partition" /\ error' = error
        ELSE Throw("mkdirs") /\ dirExists' = dirExists
    /\ UNCHANGED <<K, levelFiles, indexFile, b, g, r, brightness, results,
                   total, ranges, before, offset, after, counts>>

\* one iteration of the innermost loop of lines 55-65; after the last one
\* the level loop starts with brightness = 0
PartitionStep ==
    /\ pc = "partition"
    /\ LET lvl == Brightness(r, g, b)
           bucket == IF lvl \in DOMAIN results THEN results[lvl] ELSE <<>>
           lastR == r = ChanMax
           lastG == lastR /\ g = ChanMax
           lastB == lastG /\ b = ChanMax
       IN  /\ results' = Put(results, lvl, Append(bucket, Pack(r, g, b)))
           /\ r' = IF lastR THEN 0 ELSE r + 1
           /\ g' = IF lastG THEN 0 ELSE IF lastR THEN g + 1 ELSE g
           /\ b' = IF lastR /\ lastG THEN b + 1 ELSE b
           /\ brightness' = IF lastB THEN 0 ELSE lvl
           /\ pc' = IF lastB THEN "encode" ELSE "partition"
    /\ UNCHANGED <<error, K, dirExists, levelFiles, indexFile, total, ranges,
                   before, offset, after, counts>>

\* lines 68-101 for one level: sort, total, shift, ranges, before buffer
EncodeLevel ==
    /\ pc = "encode"
    /\ brightness < NumLevels
    /\ IF brightness \notin DOMAIN results
       THEN \* results[brightness] is undefined: .sort is a TypeError
            /\ Throw("TypeError")
            /\ UNCHANGED <<results, total, ranges, before, offset>>
       ELSE LET colors == SortColors(results[brightness])
                rs == BuildRanges(colors)
            IN  /\ total' = Total(colors)
                /\ results' = [results EXCEPT ![brightness] = ShiftRest(colors)]
                /\ ranges' = rs
                /\ before' = BuildBefore(Total(colors), rs)
                /\ offset' = 4 + 8 * Len(rs)
                /\ pc' = "compress"
                /\ error' = error
    /\ UNCHANGED <<K, dirExists, levelFiles, indexFile, b, g, r, brightness,
                   after, counts>>

\* before.writeUInt8(0, offset++): a Buffer has a fixed length; a write at
\* an index below it stores the byte, a write at or beyond it is a RangeError
PadBuffer ==
    IF offset < Len(before)
    THEN /\ before' = [before EXCEPT ![offset + 1] = 0]
         /\ offset' = offset + 1
         /\ pc' = "compress"
         /\ error' = error
    ELSE /\ Throw("RangeError")
         /\ UNCHANGED <<before, offset>>

\* one iteration of the do/while of lines 104-109
CompressAttempt ==
    /\ pc = "compress"
    /\ after' = Compress(K, before)
    /\ IF after' = Null
       THEN PadBuffer
       ELSE /\ pc' = "write"
            /\ UNCHANGED <<error, before, offset>>
    /\ UNCHANGED <<K, dirExists, levelFiles, indexFile, b, g, r, brightness,
                   results, total, ranges, counts>>

\* mutant: a failed write of a level file is caught and the loop goes on
WriteLevelSwallow ==
    /\ pc = "write"
    /\ counts' = PushCount(counts, total)
    /\ \E ok \in BOOLEAN :
        /\ levelFiles' = IF ok /\ dirExists
                         THEN Put(levelFiles, brightness, after)
                         ELSE levelFiles
        /\ brightness' = brightness + 1
        /\ pc' = IF brightness + 1 < NumLevels THEN "encode" ELSE "index"
        /\ error' = error
    /\ UNCHANGED <<K, dirExists, indexFile, b, g, r, results, total, ranges,
                   before, offset, after>>

\* counts.push(total); fs.writeFileSync(`${lookupDir}/${brightness}.br`, after);
\* then brightness++ and the loop test
WriteLevel ==
    /\ pc = "write"
    /\ counts' = PushCount(counts, total)
    /\ \E ok \in BOOLEAN :
        IF ok /\ dirExists
        THEN /\ levelFiles' = Put(levelFiles, brightness, after)
             /\ brightness' = brightness + 1
             /\ pc' = IF brightness + 1 < NumLevels THEN "encode" ELSE "index"
             /\ error' = error
        ELSE /\ Throw("writeFileSync")
             /\ UNCHANGED <<levelFiles, brightness>>
    /\ UNCHANGED <<K, dirExists, indexFile, b, g, r, results, total, ranges,
                   before, offset, after>>

\* fs.writeFileSync(`${lookupDir}/index.json`, JSON.stringify(counts))
WriteIndex ==
    /\ pc = "index"
    /\ \E ok \in BOOLEAN :
        IF ok /\ dirExists
        THEN indexFile' = JSONStringify(counts) /\ pc' = "done" /\ error' = error
        ELSE Throw("writeFileSync") /\ indexFile' = indexFile
    /\ UNCHANGED <<K, dirExists, levelFiles, b, g, r, brightness, results,
                   total, ranges, before, offset, after, counts>>

Next ==
    \/ CleanLookup
    \/ Mkdirs
    \/ PartitionStep
    \/ EncodeLevel
    \/ CompressAttempt
    \/ WriteLevel
    \/ WriteIndex

Spec == Init /\ [][Next]_vars

---------------------------------------------------------------------------
(* The range encoder and serialiser on arbitrary buckets *)

\* every array of distinct values of 0 .. MaxEncVal, the empty one included
EncBuckets ==
    UNION {{s \in [1 .. n -> 0 .. MaxEncVal] :
               \A i, j \in 1 .. n : i # j => s[i] # s[j]} :
           n \in 0 .. MaxEncVal + 1}

\* the level loop is entered with level 0 holding an arbitrary bucket, or
\* with no bucket at all (no colour was pushed for the level)
InitEnc ==
    /\ pc = "encode"
    /\ error = "none"
    /\ K = 0
    /\ dirExists = TRUE
    /\ levelFiles = EmptyMap
    /\ indexFile = NoFile
    /\ b = 0 /\ g = 0 /\ r = 0
    /\ brightness = 0
    /\ results \in {EmptyMap} \cup {Put(EmptyMap, 0, bkt) : bkt \in EncBuckets}
    /\ total = 0
    /\ ranges = <<>>
    /\ before = <<>>
    /\ offset = 0
    /\ after = Null
    /\ counts = <<>>

NextEnc == EncodeLevel

SpecEnc == InitEnc /\ [][NextEnc]_vars

---------------------------------------------------------------------------
(* What the claims are stated against: the colour space, the brightness    *)
(* levels and the reader of the file layout, written from their            *)
(* definitions and not from the build's operators.                         *)

ColourSpace == (0 .. ChanMax) \X (0 .. ChanMax) \X (0 .. ChanMax)

\* floor((299 r + 587 g + 114 b) / 1000)
LevelOf(c) == (299 * c[1] + 587 * c[2] + 114 * c[3]) \div 1000

\* the packed RGB value of a colour
Packed(c) == (c[1] * 256 + c[2]) * 256 + c[3]

\* the packed colours of brightness level l
LevelSet(l) == {Packed(c) : c \in {d \in ColourSpace : LevelOf(d) = l}}

\* unsigned 32-bit little-endian integer at byte offset off
U32At(buf, off) ==
    buf[off + 1] + 256 * (buf[off + 2] + 256 * (buf[off + 3] + 256 * buf[off + 4]))

RECURSIVE DecodeRecords(_, _)
\* the (length, first value) records from offset off on; a record of
\* length 0, or fewer than 8 bytes left, is padding
DecodeRecords(buf, off) ==
    IF off + 8 > Len(buf) \/ U32At(buf, off) = 0 THEN <<>>
    ELSE <<[len |-> U32At(buf, off), start |-> U32At(buf, off + 4)]>>
         \o DecodeRecords(buf, off + 8)

Decode(buf) == DecodeRecords(buf, 4)

RecordValues(rec) == rec.start .. (rec.start + rec.len - 1)

RECURSIVE SumSeq(_)
SumSeq(s) == IF s = <<>> THEN 0 ELSE Head(s) + SumSeq(Tail(s))

RangeLengths(rs) == [i \in DOMAIN rs |-> Len(rs[i])]

RecordLengths(recs) == [i \in DOMAIN recs |-> recs[i].len]

\* the input of a file's compressed content
Decompress(content) == Tail(content)

RECURSIVE FileRecords(_)
\* the decoded records of the files of levels l, l + 1, ..., in level order
FileRecords(l) ==
    IF l > ChanMax THEN <<>>
    ELSE <<Decode(Decompress(levelFiles[l]))>> \o FileRecords(l + 1)

DigitValue(ch) == CHOOSE d \in 0 .. 9 : DigitChars[d + 1] = ch

RECURSIVE ParseNumbers(_, _, _)
\* reader of a JSON array of non-negative integers (cur < 0: no digit read yet)
ParseNumbers(chars, cur, acc) ==
    IF chars = <<>> THEN acc
    ELSE LET ch == Head(chars)
         IN  IF ch = "[" THEN ParseNumbers(Tail(chars), cur, acc)
             ELSE IF ch = "," \/ ch = "]"
                  THEN ParseNumbers(Tail(chars), -1,
                                    IF cur < 0 THEN acc ELSE Append(acc, cur))
                  ELSE ParseNumbers(Tail(chars),
                                    (IF cur < 0 THEN 0 ELSE cur) * 10 + DigitValue(ch),
                                    acc)

JSONParse(chars) == ParseNumbers(chars, -1, <<>>)

\* a level has been encoded and serialised and is being compressed or written
LevelEncoded == pc \in {"compress", "write"}

\* the compressor is about to be called for the first time on this buffer
FirstAttempt == pc = "compress" /\ offset = 4 + 8 * Len(ranges)

---------------------------------------------------------------------------
(* The claims *)

\* C1: when the compressor refuses the buffer, the retry appends one zero
\* byte, so the next attempt's input is exactly one byte longer than this
\* attempt's (and the input so grows until the compressor accepts it).
C1_RefusalGrowsInput ==
    [][(pc = "compress" /\ Len(before) < K)
          => (pc' = "compress" /\ Len(before') = Len(before) + 1)]_vars

\* C2: a refusal by the compressor is recovered inside the retry loop and
\* never surfaces: the build raises no exception because of a refusal.
C2_RefusalNeverSurfaces == ~(pc = "failed" /\ error = "RangeError")

C4_ExactlyOneRange ==
    pc = "done" =>
        LET recs == FileRecords(0)
            hits(v) == UNION {{<<l, i>> : i \in {j \in DOMAIN recs[l + 1] :
                                                  v \in RecordValues(recs[l + 1][j])}} :
                              l \in Levels}
        IN  /\ \A c \in ColourSpace :
                  /\ Cardinality(hits(Packed(c))) = 1
                  /\ \A h \in hits(Packed(c)) : h[1] = LevelOf(c)
            /\ SumSeq(counts) = Cardinality(ColourSpace)

C4_Witness ==
    /\ pc = "done"
    /\ \E l \in Levels : Len(Decode(Decompress(levelFiles[l]))) > 1

\* C5: the ranges of a level are strictly ascending and not mergeable (for
\* consecutive ranges A then B, B.start > A.start + A.length), and every
\* range is a run of consecutive integers of the level's bucket.
C5_RangesAscendingNonMergeable ==
    LevelEncoded =>
        LET bucket == LevelSet(brightness)
        IN  /\ \A i \in 1 .. Len(ranges) :
                  /\ Len(ranges[i]) >= 1
                  /\ \A j \in 1 .. Len(ranges[i]) :
                        /\ ranges[i][j] = ranges[i][1] + (j - 1)
                        /\ ranges[i][j] \in bucket
            /\ \A i \in 1 .. Len(ranges) - 1 :
                  ranges[i + 1][1] > ranges[i][1] + Len(ranges[i])

C5_Witness ==
    /\ LevelEncoded
    /\ Len(ranges) >= 2
    /\ \E i \in 1 .. Len(ranges) : Len(ranges[i]) >= 2

\* C6: the total_count in the header of a level's buffer equals the sum of
\* the lengths of the level's ranges.
C6_TotalIsSumOfLengths ==
    LevelEncoded =>
        /\ U32At(before, 0) = SumSeq(RangeLengths(ranges))
        /\ total = SumSeq(RangeLengths(ranges))

C6_Witness == LevelEncoded /\ Len(ranges) > 1 /\ total > Len(ranges)

\* C7: decoding a level's serialized buffer (header, then records of range
\* length and first value, padding ignored) gives exactly the packed colours
\* of the level, none twice and none missing.
C7_RoundTrip ==
    LevelEncoded =>
        LET recs == Decode(before)
            bucket == LevelSet(brightness)
        IN  /\ UNION {RecordValues(recs[i]) : i \in DOMAIN recs} = bucket
            /\ SumSeq(RecordLengths(recs)) = Cardinality(bucket)

C7_Witness ==
    /\ LevelEncoded
    /\ Len(before) > 4 + 8 * Len(ranges)
    /\ Len(Decode(before)) >= 2

\* C8: on the first attempt the buffer of a level with R ranges is
\* max(4 + 8R, 80) bytes long, starts with the header and the R records in
\* range order, and is zero beyond offset 4 + 8R.
C8_BufferLayout ==
    FirstAttempt =>
        LET R == Len(ranges)
        IN  /\ Len(before) = IF 4 + 8 * R >= 80 THEN 4 + 8 * R ELSE 80
            /\ U32At(before, 0) = total
            /\ \A i \in 1 .. R :
                  /\ U32At(before, 4 + 8 * (i - 1)) = Len(ranges[i])
                  /\ U32At(before, 8 * i) = ranges[i][1]
            /\ \A j \in 4 + 8 * R + 1 .. Len(before) : before[j] = 0

C8_Witness == FirstAttempt /\ 4 + 8 * Len(ranges) >= 80

\* C9: when the build is done, the index artifact is a list of exactly one
\* integer per brightness level, the i-th being the number of colours of
\* level i.
C9_IndexIsCounts ==
    pc = "done" =>
        LET index == JSONParse(indexFile)
        IN  /\ Len(index) = NumLevels
            /\ \A l \in Levels : index[l + 1] = Cardinality(LevelSet(l))

C9_Witness == pc = "done" /\ indexFile # NoFile /\ Len(counts) = NumLevels

\* C10: a file is written only while the directory exists; level l's file
\* only when exactly the files of the levels below l are there; the index
\* only when every level's file is there; a failed write aborts the build,
\* after which nothing is written.
C10_WriteOrder ==
    [][/\ (levelFiles' # levelFiles \/ indexFile' # indexFile) => dirExists
       /\ \A l \in DOMAIN levelFiles' \ DOMAIN levelFiles :
             DOMAIN levelFiles = 0 .. l - 1
       /\ indexFile' # indexFile => DOMAIN levelFiles = Levels
       /\ (pc \in {"write", "index"}
             /\ levelFiles' = levelFiles /\ indexFile' = indexFile)
             => (pc' = "failed" /\ error' = "writeFileSync")
       /\ pc = "failed"
             => (pc' = "failed" /\ levelFiles' = levelFiles
                                /\ indexFile' = indexFile)]_vars

C10_Witness ==
    /\ pc = "failed"
    /\ error = "writeFileSync"
    /\ DOMAIN levelFiles # {}
    /\ indexFile = NoFile

=============================================================================
